---- MODULE Spec2Model ----
(***************************************************************************)
(* Model of the partition module's Config (src/modules/partition/          *)
(* Config.cpp): the enum-name tables, the swap-choice resolver             *)
(* (getSwapChoices, pickOne), the Config state holder with its setters and *)
(* signals, and the publication into the global storage.                   *)
(*                                                                         *)
(* A setter emits its signal synchronously: the connected slots run inside *)
(* the setter, between the assignment and updateGlobalStorage, and may     *)
(* call the setters again.  A setter is therefore two steps here: the call *)
(* up to and including Q_EMIT (which pushes a frame on `stack`), and the   *)
(* return from Q_EMIT (which runs updateGlobalStorage and pops the frame). *)
(* While a frame is on the stack the only steps are a re-entrant call by a *)
(* slot or the return of the innermost emit.                               *)
(***************************************************************************)
EXTENDS Integers, Sequences, FiniteSets, TLC

\* Longest userSwapChoices list drawn for a configuration map.
MaxLen == 2
\* Deepest nesting of setter calls (the outermost call plus re-entrant ones).
MaxDepth == 2
\* Number of calls made on the Config in one session, re-entrant ones included.
MaxCalls == 2

(***************************************************************************)
(* Enumerations.  The ordinals follow the name tables; the range checks of *)
(* the integer setters fix the first and the last one.                     *)
(***************************************************************************)
NoChoice == 0
Alongside == 1
Erase == 2
Replace == 3
Manual == 4
InstallChoice == NoChoice .. Manual

NoSwap == 0
SmallSwap == 1
FullSwap == 2
ReuseSwap == 3
SwapFile == 4
SwapChoice == NoSwap .. SwapFile

\* The table without an entry for Replace.
installChoiceNames_NoReplace ==
    << <<"none", NoChoice>>, <<"nochoice", NoChoice>>, <<"alongside", Alongside>>,
       <<"erase", Erase>>, <<"manual", Manual>> >>

installChoiceNames ==
    << <<"none", NoChoice>>, <<"nochoice", NoChoice>>, <<"alongside", Alongside>>,
       <<"erase", Erase>>, <<"replace", Replace>>, <<"manual", Manual>> >>

swapChoiceNames ==
    << <<"none", NoSwap>>, <<"small", SmallSwap>>, <<"suspend", FullSwap>>,
       <<"reuse", ReuseSwap>>, <<"file", SwapFile>> >>

MinOf(S) == CHOOSE x \in S : \A y \in S : x <= y

\* NamedEnumTable::find( name, ok ): the first entry with that name; on a miss
\* the value of the table's first entry, with ok = false.
find(table, name) ==
    LET hits == { i \in 1 .. Len(table) : table[i][1] = name }
    IN  IF hits = {}
        THEN [value |-> table[1][2], ok |-> FALSE]
        ELSE [value |-> table[MinOf(hits)][2], ok |-> TRUE]

\* NamedEnumTable::find( value ): the name of the first entry with that value,
\* the empty string when there is none.
findName(table, value) ==
    LET hits == { i \in 1 .. Len(table) : table[i][2] = value }
    IN  IF hits = {} THEN "" ELSE table[MinOf(hits)][1]

(***************************************************************************)
(* Configuration maps (QVariantMap): functions from the keys present to    *)
(* their values.                                                           *)
(***************************************************************************)
EmptyMap == [k \in {} |-> 0]

contains(map, key) == key \in DOMAIN map

\* CalamaresUtils::getBool / getString / getDouble / getStringList with a default.
getBool(map, key, d) == IF contains(map, key) THEN map[key] ELSE d
getString(map, key, d) == IF contains(map, key) THEN map[key] ELSE d
getDouble(map, key, d) == IF contains(map, key) THEN map[key] ELSE d
getStringList(map, key) == IF contains(map, key) THEN map[key] ELSE <<>>

Diag(level, msg) == [ev |-> level, msg |-> msg]

(***************************************************************************)
(* pickOne( s ).  `begin` is the element *( s.begin() ) yields: QSet keeps *)
(* no order, so it is any member of s (drawn by the caller from BeginOf).  *)
(***************************************************************************)
BeginOf(s) == IF s = {} THEN {NoSwap} ELSE s

pickOne_NoPreference(s, begin) ==
    IF Cardinality(s) = 0 THEN NoSwap ELSE begin

pickOne(s, begin) ==
    IF Cardinality(s) = 0
    THEN NoSwap
    ELSE IF Cardinality(s) = 1
         THEN begin
         ELSE IF NoSwap \in s
              THEN NoSwap
              ELSE begin

(***************************************************************************)
(* getSwapChoices( configurationMap ): the resolved set and the            *)
(* diagnostics it logs.                                                    *)
(***************************************************************************)
swapChoicesOfList(l) ==
    { find(swapChoiceNames, l[i]).value :
        i \in { j \in 1 .. Len(l) : find(swapChoiceNames, l[j]).ok } }

getSwapChoices_LegacyWins(configurationMap) ==
    LET neverCreateSwap == getBool(configurationMap, "neverCreateSwap", FALSE)
        ensureSuspendToDisk == getBool(configurationMap, "ensureSuspendToDisk", TRUE)
        parsed == swapChoicesOfList(getStringList(configurationMap, "userSwapChoices"))
        choices == IF neverCreateSwap
                   THEN {NoSwap}
                   ELSE IF contains(configurationMap, "userSwapChoices")
                        THEN (IF parsed = {} THEN {FullSwap} ELSE parsed)
                        ELSE IF ensureSuspendToDisk THEN {FullSwap} ELSE {SmallSwap}
    IN  [choices |-> choices \ {ReuseSwap},
         log |-> IF contains(configurationMap, "userSwapChoices")
                    /\ (contains(configurationMap, "ensureSuspendToDisk")
                        \/ contains(configurationMap, "neverCreateSwap"))
                 THEN << Diag("cError", "mixes old- and new-style swap settings") >>
                 ELSE << >>]

getSwapChoices_SuspendLast(configurationMap) ==
    LET neverCreateSwap == getBool(configurationMap, "neverCreateSwap", FALSE)
        ensureSuspendToDisk == getBool(configurationMap, "ensureSuspendToDisk", TRUE)
        parsed == swapChoicesOfList(getStringList(configurationMap, "userSwapChoices"))
        choices == IF contains(configurationMap, "userSwapChoices")
                   THEN (IF parsed = {} THEN {FullSwap} ELSE parsed)
                   ELSE IF ensureSuspendToDisk
                        THEN {FullSwap}
                        ELSE IF neverCreateSwap THEN {NoSwap} ELSE {SmallSwap}
    IN  [choices |-> choices \ {ReuseSwap}, log |-> << >>]

getSwapChoices(configurationMap) ==
    LET mixed == contains(configurationMap, "userSwapChoices")
                 /\ (contains(configurationMap, "ensureSuspendToDisk")
                     \/ contains(configurationMap, "neverCreateSwap"))
        log1 == IF mixed
                THEN << Diag("cError", "mixes old- and new-style swap settings") >>
                ELSE << >>
        log2 == IF contains(configurationMap, "ensureSuspendToDisk")
                THEN << Diag("cWarning", "ensureSuspendToDisk is deprecated") >>
                ELSE << >>
        ensureSuspendToDisk == getBool(configurationMap, "ensureSuspendToDisk", TRUE)
        log3 == IF contains(configurationMap, "neverCreateSwap")
                THEN << Diag("cWarning", "neverCreateSwap is deprecated") >>
                ELSE << >>
        neverCreateSwap == getBool(configurationMap, "neverCreateSwap", FALSE)
        parsed == swapChoicesOfList(getStringList(configurationMap, "userSwapChoices"))
        log4 == IF contains(configurationMap, "userSwapChoices") /\ parsed = {}
                THEN << Diag("cWarning", "userSwapChoices is empty") >>
                ELSE << >>
        choices == IF contains(configurationMap, "userSwapChoices")
                   THEN (IF parsed = {} THEN {FullSwap} ELSE parsed)
                   ELSE IF neverCreateSwap
                        THEN {NoSwap}
                        ELSE IF ensureSuspendToDisk THEN {FullSwap} ELSE {SmallSwap}
        log5 == IF ReuseSwap \in choices
                THEN << Diag("cWarning", "does not support userSwapChoices setting reuse") >>
                ELSE << >>
    IN  [choices |-> choices \ {ReuseSwap},
         log |-> log1 \o log2 \o log3 \o log4 \o log5]

(***************************************************************************)
(* The global storage.  A "world" w = [gs, log] is the storage together    *)
(* with the log of what the running call has done so far.                  *)
(***************************************************************************)
gsInsert(w, key, value) ==
    [gs |-> [k \in DOMAIN w.gs \cup {key} |-> IF k = key THEN value ELSE w.gs[k]],
     log |-> Append(w.log, [ev |-> "gsInsert", key |-> key, value |-> value])]


(***************************************************************************)
(* State.                                                                  *)
(***************************************************************************)
VARIABLES
    m_installChoice,              \* Config::m_installChoice
    m_swapChoice,                 \* Config::m_swapChoice
    m_swapChoices,                \* Config::m_swapChoices
    m_initialInstallChoice,       \* Config::m_initialInstallChoice
    m_initialSwapChoice,          \* Config::m_initialSwapChoice
    m_requiredStorageGiB,         \* Config::m_requiredStorageGiB
    m_allowManualPartitioning,    \* Config::m_allowManualPartitioning
    m_eraseFsTypes,               \* Config::m_eraseFsTypes
    m_eraseFsTypeChoice,          \* Config::m_eraseFsTypeChoice
    m_requiredPartitionTableType, \* Config::m_requiredPartitionTableType
    gsAvailable,   \* JobQueue::instance() and its globalStorage() are non-null
    gs,            \* the global storage: key -> value, for the keys it contains
    stack,         \* the setter calls whose Q_EMIT has not returned, outermost first
    events,        \* what the running outermost call did so far: calls, signals,
                   \* diagnostics and storage inserts, in order
    crashed,       \* the process dereferenced a null pointer and died
    configured,    \* setConfigurationMap has run
    ncalls,        \* calls made so far
    configurationMap, \* SpecLoad: the map handed to setConfigurationMap
    pickArg,       \* SpecPickOne: the set handed to pickOne
    pickBegin,     \* SpecPickOne: what *( s.begin() ) yields for it
    pickDone,      \* SpecPickOne: pickOne has returned
    pickRet        \* SpecPickOne: what pickOne returned

choiceVars == << m_installChoice, m_swapChoice >>
loadedVars == << m_swapChoices, m_initialInstallChoice, m_initialSwapChoice,
                 m_requiredStorageGiB, m_allowManualPartitioning, m_eraseFsTypes,
                 m_eraseFsTypeChoice, m_requiredPartitionTableType >>
configVars == << choiceVars, loadedVars >>
envVars == << gsAvailable, configurationMap >>
pickVars == << pickArg, pickBegin, pickDone, pickRet >>
vars == << configVars, gs, stack, events, crashed, configured, ncalls, envVars, pickVars >>

\* The log a call starts from: an outermost call starts a new log, a call made
\* by a slot continues the log of the call it runs in.
BeginCall(op, arg) ==
    (IF stack = << >> THEN << >> ELSE events) \o << [ev |-> "call", op |-> op, arg |-> arg] >>

(***************************************************************************)
(* updateGlobalStorage( installChoice, swapChoice )                        *)
(***************************************************************************)
\* The two names inserted in the storage itself, not in the record m.
updateGlobalStorage_Flat(w, installChoice, swapChoice) ==
    IF gsAvailable
    THEN gsInsert(gsInsert(w, "install", findName(installChoiceNames, installChoice)),
                  "swap", findName(swapChoiceNames, swapChoice))
    ELSE w

updateGlobalStorage(w, installChoice, swapChoice) ==
    IF gsAvailable
    THEN gsInsert(w, "partitionChoices",
                  [install |-> findName(installChoiceNames, installChoice),
                   swap |-> findName(swapChoiceNames, swapChoice)])
    ELSE w

(***************************************************************************)
(* Config::setInstallChoice( InstallChoice ), up to and including Q_EMIT.  *)
(***************************************************************************)
setInstallChoiceEmit_Always(c, log) ==
    /\ m_installChoice' = c
    /\ events' = Append(log, [ev |-> "installChoiceChanged", arg |-> c])
    /\ stack' = Append(stack, [op |-> "setInstallChoice", c |-> c])

setInstallChoiceEmit(c, log) ==
    IF c # m_installChoice
    THEN /\ m_installChoice' = c
         /\ events' = Append(log, [ev |-> "installChoiceChanged", arg |-> c])
         /\ stack' = Append(stack, [op |-> "setInstallChoice", c |-> c])
    ELSE /\ events' = log
         /\ UNCHANGED << m_installChoice, stack >>

SetInstallChoice(c) ==
    /\ ~crashed
    /\ ncalls < MaxCalls
    /\ ncalls' = ncalls + 1
    /\ Len(stack) < MaxDepth
    /\ setInstallChoiceEmit(c, BeginCall("setInstallChoice", c))
    /\ UNCHANGED << m_swapChoice, loadedVars, gs, crashed, configured, envVars, pickVars >>

\* The range check of Config::setInstallChoice( int ).
installChoiceOfInt_OffByOne(c) ==
    IF (c < NoChoice) \/ (c > Manual + 1) THEN NoChoice ELSE c

installChoiceOfInt(c) ==
    IF (c < NoChoice) \/ (c > Manual) THEN NoChoice ELSE c

\* Config::setInstallChoice( int )
SetInstallChoiceInt(c) ==
    /\ ~crashed
    /\ ncalls < MaxCalls
    /\ ncalls' = ncalls + 1
    /\ Len(stack) < MaxDepth
    /\ LET log0 == BeginCall("setInstallChoice(int)", c)
           log1 == IF installChoiceOfInt(c) # c
                   THEN Append(log0, Diag("cWarning", "Invalid install choice (int)"))
                   ELSE log0
       IN  setInstallChoiceEmit(installChoiceOfInt(c), log1)
    /\ UNCHANGED << m_swapChoice, loadedVars, gs, crashed, configured, envVars, pickVars >>

\* Config::setInstallChoice( InstallChoice ), from the return of Q_EMIT on.
SetInstallChoiceReturn ==
    /\ ~crashed
    /\ stack # << >>
    /\ stack[Len(stack)].op = "setInstallChoice"
    /\ LET w == updateGlobalStorage([gs |-> gs, log |-> events],
                                    stack[Len(stack)].c, m_swapChoice)
       IN  /\ gs' = w.gs
           /\ events' = w.log
    /\ stack' = SubSeq(stack, 1, Len(stack) - 1)
    /\ UNCHANGED << configVars, crashed, configured, ncalls, envVars, pickVars >>

(***************************************************************************)
(* Config::setSwapChoice                                                   *)
(***************************************************************************)
\* The body with the signal sent before the member is assigned.
setSwapChoiceEmit_EmitFirst(c, log) ==
    IF c # m_swapChoice
    THEN /\ m_swapChoice' = c
         /\ events' = Append(log, [ev |-> "swapChoiceChanged", arg |-> m_swapChoice])
         /\ stack' = Append(stack, [op |-> "setSwapChoice", c |-> c])
    ELSE /\ events' = log
         /\ UNCHANGED << m_swapChoice, stack >>

setSwapChoiceEmit(c, log) ==
    IF c # m_swapChoice
    THEN /\ m_swapChoice' = c
         /\ events' = Append(log, [ev |-> "swapChoiceChanged", arg |-> c])
         /\ stack' = Append(stack, [op |-> "setSwapChoice", c |-> c])
    ELSE /\ events' = log
         /\ UNCHANGED << m_swapChoice, stack >>

SetSwapChoice(c) ==
    /\ ~crashed
    /\ ncalls < MaxCalls
    /\ ncalls' = ncalls + 1
    /\ Len(stack) < MaxDepth
    /\ setSwapChoiceEmit(c, BeginCall("setSwapChoice", c))
    /\ UNCHANGED << m_installChoice, loadedVars, gs, crashed, configured, envVars, pickVars >>

\* The range check of Config::setSwapChoice( int ).
swapChoiceOfInt(c) ==
    IF (c < NoSwap) \/ (c > SwapFile) THEN NoSwap ELSE c

\* Config::setSwapChoice( int )
SetSwapChoiceInt(c) ==
    /\ ~crashed
    /\ ncalls < MaxCalls
    /\ ncalls' = ncalls + 1
    /\ Len(stack) < MaxDepth
    /\ LET log0 == BeginCall("setSwapChoice(int)", c)
           log1 == IF swapChoiceOfInt(c) # c
                   THEN Append(log0, Diag("cWarning", "Invalid swap choice (int)"))
                   ELSE log0
       IN  setSwapChoiceEmit(swapChoiceOfInt(c), log1)
    /\ UNCHANGED << m_installChoice, loadedVars, gs, crashed, configured, envVars, pickVars >>

\* Config::setSwapChoice( SwapChoice ), from the return of Q_EMIT on.
SetSwapChoiceReturn ==
    /\ ~crashed
    /\ stack # << >>
    /\ stack[Len(stack)].op = "setSwapChoice"
    /\ LET w == updateGlobalStorage([gs |-> gs, log |-> events],
                                    m_installChoice, stack[Len(stack)].c)
       IN  /\ gs' = w.gs
           /\ events' = w.log
    /\ stack' = SubSeq(stack, 1, Len(stack) - 1)
    /\ UNCHANGED << configVars, crashed, configured, ncalls, envVars, pickVars >>


(***************************************************************************)
(* Config::setEraseFsTypeChoice.  The emit is its last statement, so the   *)
(* call is one step; it may be made from a slot as well.                   *)
(***************************************************************************)
\* PartUtils::canonicalFilesystemName( choice, nullptr ): the name a file
\* system is known under, whatever the case it was asked in; the empty name
\* for a file system that is not known.
canonicalFilesystemName(choice) ==
    CASE choice \in {"ext4", "EXT4"} -> "ext4"
      [] choice \in {"btrfs", "Btrfs"} -> "btrfs"
      [] OTHER -> ""

\* The body of setEraseFsTypeChoice with the choice as given.
eraseFsTypeChoiceEmit_Raw(choice, log) ==
    IF choice # m_eraseFsTypeChoice
    THEN /\ m_eraseFsTypeChoice' = choice
         /\ events' = Append(log, [ev |-> "eraseModeFilesystemChanged", arg |-> choice])
    ELSE /\ events' = log
         /\ UNCHANGED m_eraseFsTypeChoice

eraseFsTypeChoiceEmit(choice, log) ==
    LET canonicalChoice == canonicalFilesystemName(choice)
    IN  IF canonicalChoice # m_eraseFsTypeChoice
        THEN /\ m_eraseFsTypeChoice' = canonicalChoice
             /\ events' = Append(log, [ev |-> "eraseModeFilesystemChanged",
                                       arg |-> canonicalChoice])
        ELSE /\ events' = log
             /\ UNCHANGED m_eraseFsTypeChoice

SetEraseFsTypeChoice(choice) ==
    /\ ~crashed
    /\ ncalls < MaxCalls
    /\ ncalls' = ncalls + 1
    /\ Len(stack) < MaxDepth
    /\ eraseFsTypeChoiceEmit(choice, BeginCall("setEraseFsTypeChoice", choice))
    /\ UNCHANGED << choiceVars, m_swapChoices, m_initialInstallChoice, m_initialSwapChoice,
                    m_requiredStorageGiB, m_allowManualPartitioning, m_eraseFsTypes,
                    m_requiredPartitionTableType, gs, stack, crashed, configured,
                    envVars, pickVars >>

(***************************************************************************)
(* Config::setConfigurationMap.  It runs when the module is loaded; the    *)
(* slots connected at that time only receive the signals (they are logged  *)
(* in `events`), so its two setter calls run to their end inside the step. *)
(***************************************************************************)
\* setInstallChoice( c ) run to its end on the choices and world st.
callSetInstallChoice(st, c) ==
    IF c # st.installChoice
    THEN LET w == updateGlobalStorage(
                      [gs |-> st.gs,
                       log |-> Append(st.log, [ev |-> "installChoiceChanged", arg |-> c])],
                      c, st.swapChoice)
         IN  [st EXCEPT !.installChoice = c, !.gs = w.gs, !.log = w.log]
    ELSE st

\* setSwapChoice( c ) run to its end on the choices and world st.
callSetSwapChoice(st, c) ==
    IF c # st.swapChoice
    THEN LET w == updateGlobalStorage(
                      [gs |-> st.gs,
                       log |-> Append(st.log, [ev |-> "swapChoiceChanged", arg |-> c])],
                      st.installChoice, c)
         IN  [st EXCEPT !.swapChoice = c, !.gs = w.gs, !.log = w.log]
    ELSE st

\* fillGSConfigurationEFI( gs, configurationMap ); isEfiSystem is what
\* PartUtils::isEfiSystem() answers.
fillGSConfigurationEFI_Unguarded(w, map, isEfiSystem) ==
    LET w1 == gsInsert(w, "firmwareType", IF isEfiSystem THEN "efi" ELSE "bios")
        w2 == gsInsert(w1, "efiSystemPartition",
                       getString(map, "efiSystemPartition", "/boot/efi"))
        w3 == gsInsert(w2, "efiSystemPartitionSize",
                       getString(map, "efiSystemPartitionSize", ""))
    IN  gsInsert(w3, "efiSystemPartitionName",
                 getString(map, "efiSystemPartitionName", ""))

fillGSConfigurationEFI(w, map, isEfiSystem) ==
    LET w1 == gsInsert(w, "firmwareType", IF isEfiSystem THEN "efi" ELSE "bios")
        w2 == gsInsert(w1, "efiSystemPartition",
                       getString(map, "efiSystemPartition", "/boot/efi"))
        w3 == IF contains(map, "efiSystemPartitionSize")
              THEN gsInsert(w2, "efiSystemPartitionSize",
                            getString(map, "efiSystemPartitionSize", ""))
              ELSE w2
    IN  IF contains(map, "efiSystemPartitionName")
        THEN gsInsert(w3, "efiSystemPartitionName",
                      getString(map, "efiSystemPartitionName", ""))
        ELSE w3

\* What dereferencing the null job queue or storage at lines 281-285 can do:
\* the process dies there, or it runs on and the inserts are lost.
NullDeref == {"crash", "lost"}

\* The initial swap choice: the configured one when the resolved set has it,
\* else pickOne of the resolved set.
initialSwapChoiceOf_Unchecked(parsedSwap, choices, begin) == parsedSwap

initialSwapChoiceOf(parsedSwap, choices, begin) ==
    IF parsedSwap \notin choices THEN pickOne(choices, begin) ELSE parsedSwap

SetConfigurationMap(map, begin, isEfiSystem, deref) ==
    /\ ~crashed
    /\ ncalls < MaxCalls
    /\ ncalls' = ncalls + 1
    /\ stack = << >>
    /\ LET swap == getSwapChoices(map)
           log0 == BeginCall("setConfigurationMap", map) \o swap.log
           initialInstall ==
               find(installChoiceNames, getString(map, "initialPartitioningChoice", "")).value
           st1 == callSetInstallChoice(
                      [installChoice |-> m_installChoice, swapChoice |-> m_swapChoice,
                       gs |-> gs, log |-> log0],
                      initialInstall)
           parsedSwap ==
               find(swapChoiceNames, getString(map, "initialSwapChoice", "")).value
           mismatch == parsedSwap \notin swap.choices
           initialSwap == initialSwapChoiceOf(parsedSwap, swap.choices, begin)
           st2 == callSetSwapChoice(
                      [st1 EXCEPT !.log =
                          IF mismatch
                          THEN Append(@, Diag("cWarning",
                                   "initialSwapChoice is not one of the userSwapChoices"))
                          ELSE @],
                      initialSwap)
           fsTypes == getStringList(map, "availableFileSystemTypes")
           newFs == contains(map, "availableFileSystemTypes") /\ fsTypes # << >>
           log3 == IF newFs
                   THEN Append(st2.log, [ev |-> "eraseModeFilesystemChanged", arg |-> fsTypes[1]])
                   ELSE st2.log
           tableType == getStringList(map, "requiredPartitionTableType")
           w4 == fillGSConfigurationEFI(
                     gsInsert([gs |-> st2.gs, log |-> log3],
                              "requiredPartitionTableType", tableType),
                     map, isEfiSystem)
       IN  /\ m_requiredStorageGiB' = getDouble(map, "requiredStorage", -1)
           /\ m_swapChoices' = swap.choices
           /\ m_initialInstallChoice' = initialInstall
           /\ m_installChoice' = st2.installChoice
           /\ m_initialSwapChoice' = initialSwap
           /\ m_swapChoice' = st2.swapChoice
           /\ m_allowManualPartitioning' = getBool(map, "allowManualPartitioning", TRUE)
           /\ m_eraseFsTypes' = IF contains(map, "availableFileSystemTypes")
                                THEN fsTypes ELSE m_eraseFsTypes
           /\ m_eraseFsTypeChoice' = IF newFs THEN fsTypes[1] ELSE m_eraseFsTypeChoice
           /\ IF gsAvailable
              THEN /\ m_requiredPartitionTableType' = tableType
                   /\ gs' = w4.gs
                   /\ events' = w4.log
                   /\ crashed' = FALSE
              ELSE /\ gs' = st2.gs
                   /\ events' = log3
                   /\ crashed' = (deref = "crash")
                   /\ m_requiredPartitionTableType' =
                          IF deref = "crash" THEN m_requiredPartitionTableType ELSE tableType
    /\ configured' = TRUE
    /\ UNCHANGED << stack, envVars, pickVars >>

(***************************************************************************)
(* Config::fillGSSecondaryConfiguration                                    *)
(***************************************************************************)
fillGSSecondaryConfiguration_Overwrite(w, requiredStorageGiB) ==
    IF requiredStorageGiB >= 0 /\ gsAvailable
    THEN gsInsert(w, "requiredStorageGiB", requiredStorageGiB)
    ELSE w

fillGSSecondaryConfiguration(w, requiredStorageGiB) ==
    IF requiredStorageGiB >= 0 /\ gsAvailable /\ ~contains(w.gs, "requiredStorageGiB")
    THEN gsInsert(w, "requiredStorageGiB", requiredStorageGiB)
    ELSE w

FillGSSecondaryConfiguration ==
    /\ ~crashed
    /\ ncalls < MaxCalls
    /\ ncalls' = ncalls + 1
    /\ stack = << >>
    /\ LET w == fillGSSecondaryConfiguration(
                    [gs |-> gs, log |-> BeginCall("fillGSSecondaryConfiguration", "")],
                    m_requiredStorageGiB)
       IN  /\ gs' = w.gs
           /\ events' = w.log
    /\ UNCHANGED << configVars, stack, crashed, configured, envVars, pickVars >>

(***************************************************************************)
(* Inputs.                                                                 *)
(***************************************************************************)
\* Integers handed to the integer setters: the two ends of the enumerations
\* (both have five values) and the integers next to them on either side.
IntInputs == { NoChoice - 1, NoChoice, NoChoice + 1, Manual - 1, Manual, Manual + 1 }

\* Names a configuration may use for a swap choice: the table's and a bogus one.
SwapNameInputs == {"none", "small", "suspend", "reuse", "file", "bogus"}
InstallNameInputs == {"none", "nochoice", "alongside", "erase", "replace", "manual", "bogus"}

\* Names handed to setEraseFsTypeChoice: a canonical one, one in another case,
\* and one of no file system.
FsNameInputs == {"ext4", "EXT4", "jfs2"}

ListsOf(S, n) == UNION { [1 .. k -> S] : k \in 0 .. n }

\* The maps with key k absent or bound to a value of S.
Opt(k, S) == {EmptyMap} \cup { k :> v : v \in S }

\* Every combination of the four swap keys.
SwapMaps ==
    { a @@ b @@ c @@ d :
        a \in Opt("userSwapChoices", ListsOf(SwapNameInputs, MaxLen)),
        b \in Opt("ensureSuspendToDisk", BOOLEAN),
        c \in Opt("neverCreateSwap", BOOLEAN),
        d \in Opt("initialSwapChoice", SwapNameInputs) }

\* The other keys, one group at a time.
OtherMaps ==
    { a @@ b : a \in Opt("requiredStorage", {-1, 0, 2}),
               b \in Opt("initialPartitioningChoice", InstallNameInputs) }
    \cup { a @@ b : a \in Opt("allowManualPartitioning", BOOLEAN),
                    b \in Opt("availableFileSystemTypes",
                              { << >>, <<"ext4">>, <<"btrfs", "ext4">> }) }
    \cup { a @@ b @@ c @@ d :
             a \in Opt("requiredPartitionTableType", { <<"gpt">>, <<"gpt", "msdos">> }),
             b \in Opt("efiSystemPartition", {"/efi"}),
             c \in Opt("efiSystemPartitionSize", {"300M"}),
             d \in Opt("efiSystemPartitionName", {"EFI"}) }

\* The maps a single load is checked on.
LoadMaps == SwapMaps \cup OtherMaps

\* The maps loaded in the course of a session of setter calls.
SessionMaps ==
    Opt("requiredStorage", {-1, 0, 2})
    \cup Opt("userSwapChoices", { <<"reuse">>, <<"none", "small">>, <<"suspend", "file">> })
    \cup { "initialPartitioningChoice" :> "erase" @@ "initialSwapChoice" :> "small" @@
           "ensureSuspendToDisk" :> FALSE,
           "availableFileSystemTypes" :> <<"EXT4", "btrfs">> }

\* What the global storage holds before this module writes to it: nothing,
\* the required storage the welcome module has put there, or the EFI keys
\* of an earlier load.
InitialStores ==
    { EmptyMap,
      "requiredStorageGiB" :> 7,
      "efiSystemPartitionSize" :> "100M" @@ "efiSystemPartitionName" :> "ESP" }

(***************************************************************************)
(* Spec: a session of calls on one Config.                                 *)
(***************************************************************************)
\* The Config as constructed (the member initializers of Config.h).
Constructed ==
    /\ m_installChoice = NoChoice
    /\ m_swapChoice = NoSwap
    /\ m_swapChoices = {}
    /\ m_initialInstallChoice = NoChoice
    /\ m_initialSwapChoice = NoSwap
    /\ m_requiredStorageGiB = 0
    /\ m_allowManualPartitioning = TRUE
    /\ m_eraseFsTypes = << >>
    /\ m_eraseFsTypeChoice = ""
    /\ m_requiredPartitionTableType = << >>
    /\ stack = << >>
    /\ events = << >>
    /\ crashed = FALSE
    /\ configured = FALSE
    /\ ncalls = 0

Environment ==
    /\ gsAvailable \in BOOLEAN
    /\ gs \in (IF gsAvailable THEN InitialStores ELSE {EmptyMap})

NoPick ==
    /\ pickArg = {}
    /\ pickBegin = NoSwap
    /\ pickDone = FALSE
    /\ pickRet = NoSwap

Init ==
    /\ Constructed
    /\ Environment
    /\ configurationMap = EmptyMap
    /\ NoPick

Next ==
    \/ \E c \in InstallChoice : SetInstallChoice(c)
    \/ \E c \in IntInputs : SetInstallChoiceInt(c)
    \/ SetInstallChoiceReturn
    \/ \E c \in SwapChoice : SetSwapChoice(c)
    \/ \E c \in IntInputs : SetSwapChoiceInt(c)
    \/ SetSwapChoiceReturn
    \/ \E map \in SessionMaps, isEfiSystem \in BOOLEAN, deref \in NullDeref :
           \E begin \in BeginOf(getSwapChoices(map).choices) :
               SetConfigurationMap(map, begin, isEfiSystem, deref)
    \/ FillGSSecondaryConfiguration
    \/ \E choice \in FsNameInputs : SetEraseFsTypeChoice(choice)

Spec == Init /\ [][Next]_vars

(***************************************************************************)
(* SpecLoad: one setConfigurationMap on a freshly constructed Config, for  *)
(* every map of LoadMaps.                                                  *)
(***************************************************************************)
InitLoad ==
    /\ Constructed
    /\ Environment
    /\ configurationMap \in LoadMaps
    /\ NoPick

LoadConfiguration ==
    /\ ~configured
    /\ \E isEfiSystem \in BOOLEAN, deref \in NullDeref :
           \E begin \in BeginOf(getSwapChoices(configurationMap).choices) :
               SetConfigurationMap(configurationMap, begin, isEfiSystem, deref)

NextLoad == LoadConfiguration

SpecLoad == InitLoad /\ [][NextLoad]_vars

(***************************************************************************)
(* SpecPickOne: pickOne on every set of swap choices, for every element    *)
(* its begin() may yield.                                                  *)
(***************************************************************************)
InitPickOne ==
    /\ Constructed
    /\ gsAvailable = TRUE
    /\ gs = EmptyMap
    /\ configurationMap = EmptyMap
    /\ pickArg \in SUBSET SwapChoice
    /\ pickBegin \in BeginOf(pickArg)
    /\ pickDone = FALSE
    /\ pickRet = NoSwap

PickOne ==
    /\ ~pickDone
    /\ pickRet' = pickOne(pickArg, pickBegin)
    /\ pickDone' = TRUE
    /\ UNCHANGED << configVars, gs, stack, events, crashed, configured, ncalls, envVars,
                    pickArg, pickBegin >>

NextPickOne == PickOne

SpecPickOne == InitPickOne /\ [][NextPickOne]_vars


(***************************************************************************)
(* Properties.                                                             *)
(***************************************************************************)
\* What the step appended to the log (the whole log, for an outermost call).
NewEvents ==
    IF stack = << >> THEN events' ELSE SubSeq(events', Len(events) + 1, Len(events'))

\* The step is the call op( arg ).
IsCall(op, arg) ==
    /\ ncalls' = ncalls + 1
    /\ NewEvents[1].op = op
    /\ NewEvents[1].arg = arg

PartitionChoicesOf(installChoice, swapChoice) ==
    [install |-> findName(installChoiceNames, installChoice),
     swap |-> findName(swapChoiceNames, swapChoice)]

\* The swap choice a configuration names: the table's value, NoSwap for any
\* other name and for no name.
SwapOfName(name) ==
    CASE name = "none" -> NoSwap
      [] name = "small" -> SmallSwap
      [] name = "suspend" -> FullSwap
      [] name = "reuse" -> ReuseSwap
      [] name = "file" -> SwapFile
      [] OTHER -> NoSwap

\* C1: after setConfigurationMap (with the store available, so that it runs to
\* its end), for every configuration map, the resolved SwapChoiceSet (what
\* getSwapChoices returned and setConfigurationMap stored) is non-empty and
\* does not contain ReuseSwap.
C1_ResolvedSetNonEmptyWithoutReuse ==
    (configured /\ gsAvailable) => (m_swapChoices # {} /\ ReuseSwap \notin m_swapChoices)

\* C2: with the store available, once the outermost setter call has returned
\* after some call changed the choices (so that partitionChoices was written),
\* the store's partitionChoices record holds the canonical names of the current
\* InstallChoice and SwapChoice, re-entrant calls by observers included.
C2_StoreHoldsCurrentChoices ==
    (gsAvailable /\ stack = << >> /\ contains(gs, "partitionChoices"))
        => gs["partitionChoices"] = PartitionChoicesOf(m_installChoice, m_swapChoice)

\* C3: when the shared store is unavailable, every operation still completes
\* without failure.
C3_NoFailureWithoutStore ==
    ~gsAvailable => ~crashed

\* C4: a call of setInstallChoice with the current InstallChoice, or of
\* setSwapChoice with the current SwapChoice, emits no signal, writes nothing to
\* the store and leaves the whole Config state unchanged.
C4_SameValueIsNoOp ==
    [][ (IsCall("setInstallChoice", m_installChoice) \/ IsCall("setSwapChoice", m_swapChoice))
            => /\ UNCHANGED << configVars, gs, stack, crashed, configured >>
               /\ Len(NewEvents) = 1 ]_vars

\* C4's case: setInstallChoice was called with the value an earlier call had
\* set, and nothing but the call itself is in the log.
C4_Witness ==
    /\ stack = << >>
    /\ Len(events) = 1
    /\ events[1].op = "setInstallChoice"
    /\ events[1].arg = m_installChoice
    /\ m_installChoice # NoChoice

\* C5: after setConfigurationMap the initial and the current SwapChoice are
\* equal; they are the value initialSwapChoice names when the resolved set has
\* it, else pickOne of the resolved set; an absent or unknown name counts as
\* NoSwap; initialSwapChoice "file" with userSwapChoices ["suspend"] gives
\* FullSwap.
C5_InitialSwapChoice ==
    configured =>
        LET parsed == SwapOfName(getString(configurationMap, "initialSwapChoice", ""))
        IN  /\ m_initialSwapChoice = m_swapChoice
            /\ IF parsed \in m_swapChoices
               THEN m_swapChoice = parsed
               ELSE \E b \in BeginOf(m_swapChoices) : m_swapChoice = pickOne(m_swapChoices, b)
            /\ (/\ getString(configurationMap, "initialSwapChoice", "") = "file"
                /\ getStringList(configurationMap, "userSwapChoices") = << "suspend" >>)
                   => m_swapChoice = FullSwap

\* C5's case: the configured initial swap choice is not in a resolved set of
\* two members, and the fallback was taken.
C5_Witness ==
    /\ configured
    /\ getString(configurationMap, "initialSwapChoice", "") = "file"
    /\ m_swapChoices = {NoSwap, FullSwap}
    /\ m_initialSwapChoice = NoSwap
    /\ m_swapChoice = NoSwap

\* C6: without userSwapChoices the resolved set is {NoSwap} if neverCreateSwap
\* (default false), else {FullSwap} if ensureSuspendToDisk (default true), else
\* {SmallSwap}.
C6_LegacyPriority ==
    (configured /\ ~contains(configurationMap, "userSwapChoices")) =>
        m_swapChoices =
            IF contains(configurationMap, "neverCreateSwap")
               /\ configurationMap["neverCreateSwap"]
            THEN {NoSwap}
            ELSE IF contains(configurationMap, "ensureSuspendToDisk")
                    /\ ~configurationMap["ensureSuspendToDisk"]
                 THEN {SmallSwap}
                 ELSE {FullSwap}

\* C6's case: both legacy keys are set to true and neverCreateSwap won.
C6_Witness ==
    /\ configured
    /\ ~contains(configurationMap, "userSwapChoices")
    /\ getBool(configurationMap, "neverCreateSwap", FALSE)
    /\ contains(configurationMap, "ensureSuspendToDisk")
    /\ configurationMap["ensureSuspendToDisk"]
    /\ m_swapChoices = {NoSwap}

LegacyKeys == {"ensureSuspendToDisk", "neverCreateSwap"}

WithoutLegacyKeys(map) == [k \in DOMAIN map \ LegacyKeys |-> map[k]]

\* C7: when userSwapChoices comes with a legacy key, the conflict is logged as
\* an error and the resolved set is the one the map yields without its legacy
\* keys.
C7_ModernSchemaWins ==
    (configured /\ contains(configurationMap, "userSwapChoices")
                /\ DOMAIN configurationMap \cap LegacyKeys # {}) =>
        /\ \E i \in 1 .. Len(events) : events[i].ev = "cError"
        /\ m_swapChoices = getSwapChoices(WithoutLegacyKeys(configurationMap)).choices

\* C7's case: neverCreateSwap is true and userSwapChoices names only "small".
C7_Witness ==
    /\ configured
    /\ getStringList(configurationMap, "userSwapChoices") = << "small" >>
    /\ getBool(configurationMap, "neverCreateSwap", FALSE)
    /\ m_swapChoices = {SmallSwap}

\* C8: pickOne( s ) is NoSwap for the empty set, the sole member of a set of
\* one, NoSwap for a larger set that has NoSwap, and otherwise a member of s;
\* for a non-empty s it is always a member of s.
C8_PickOnePolicy ==
    pickDone =>
        /\ IF pickArg = {}
           THEN pickRet = NoSwap
           ELSE IF Cardinality(pickArg) = 1
                THEN pickArg = {pickRet}
                ELSE IF NoSwap \in pickArg
                     THEN pickRet = NoSwap
                     ELSE pickRet \in pickArg
        /\ pickArg # {} => pickRet \in pickArg

\* C8's case: a set of two members with NoSwap whose begin() is the other one.
C8_Witness ==
    /\ pickDone
    /\ pickArg = {NoSwap, SmallSwap}
    /\ pickBegin = SmallSwap
    /\ pickRet = NoSwap

\* C9: fillGSSecondaryConfiguration inserts requiredStorageGiB exactly when the
\* threshold is >= 0, the store is available and the store does not have the
\* key; it changes no value the store has, adds no other key, leaves the Config
\* state alone, and a second call changes nothing more.
C9_FillSecondaryConfiguration ==
    [][ IsCall("fillGSSecondaryConfiguration", "")
            => /\ UNCHANGED << configVars, stack, crashed, configured >>
               /\ \A k \in DOMAIN gs : k \in DOMAIN gs' /\ gs'[k] = gs[k]
               /\ DOMAIN gs' \subseteq DOMAIN gs \cup {"requiredStorageGiB"}
               /\ ("requiredStorageGiB" \in DOMAIN gs' \ DOMAIN gs)
                      <=> (/\ m_requiredStorageGiB >= 0
                           /\ gsAvailable
                           /\ "requiredStorageGiB" \notin DOMAIN gs)
               /\ ("requiredStorageGiB" \in DOMAIN gs' \ DOMAIN gs)
                      => gs'["requiredStorageGiB"] = m_requiredStorageGiB
               /\ fillGSSecondaryConfiguration([gs |-> gs', log |-> << >>],
                                               m_requiredStorageGiB').gs = gs' ]_vars

\* C9's case: a threshold was configured, the store had another module's
\* requiredStorageGiB, and the call left it.
C9_Witness ==
    /\ stack = << >>
    /\ Len(events) = 1
    /\ events[1].op = "fillGSSecondaryConfiguration"
    /\ m_requiredStorageGiB = 2
    /\ contains(gs, "requiredStorageGiB")
    /\ gs["requiredStorageGiB"] = 7

\* C10: setInstallChoice( int ) with an integer outside NoChoice..Manual does
\* what setInstallChoice( NoChoice ) does, setSwapChoice( int ) with an integer
\* outside NoSwap..SwapFile does what setSwapChoice( NoSwap ) does, and the
\* current choices are always values of their enumerations.
C10_OutOfRangeIntegers ==
    /\ [](m_installChoice \in InstallChoice /\ m_swapChoice \in SwapChoice)
    /\ [][ \A c \in IntInputs :
            /\ (c \notin InstallChoice /\ IsCall("setInstallChoice(int)", c))
                   => /\ setInstallChoiceEmit(NoChoice,
                             Append(BeginCall("setInstallChoice(int)", c),
                                    Diag("cWarning", "Invalid install choice (int)")))
                      /\ UNCHANGED << m_swapChoice, loadedVars, gs, crashed, configured >>
            /\ (c \notin SwapChoice /\ IsCall("setSwapChoice(int)", c))
                   => /\ setSwapChoiceEmit(NoSwap,
                             Append(BeginCall("setSwapChoice(int)", c),
                                    Diag("cWarning", "Invalid swap choice (int)")))
                      /\ UNCHANGED << m_installChoice, loadedVars, gs, crashed, configured >>
       ]_vars

\* C10's case: an out-of-range integer replaced a choice made before by
\* NoChoice, and the observers were told.
C10_Witness ==
    /\ Len(events) >= 3
    /\ events[1].op = "setInstallChoice(int)"
    /\ events[1].arg \notin InstallChoice
    /\ events[3].ev = "installChoiceChanged"
    /\ events[3].arg = NoChoice
    /\ m_installChoice = NoChoice

\* The values that have an entry in the table.
ValuesOf(table) == { table[i][2] : i \in 1 .. Len(table) }

\* Value to name to value, in the table.
RoundTrip(table, value) == find(table, findName(table, value))

\* C11: every InstallChoice and SwapChoice value has a table entry, and the
\* canonical name of the value (the first entry with that value), looked up in
\* the same table, gives the value back with the success flag set; "none" and
\* "nochoice" both resolve to NoChoice.  So the names a setter publishes in the
\* store resolve to the very choices it published.
C11_NameRoundTrip ==
    /\ [](/\ InstallChoice \subseteq ValuesOf(installChoiceNames)
          /\ SwapChoice \subseteq ValuesOf(swapChoiceNames)
          /\ \A v \in InstallChoice :
                 RoundTrip(installChoiceNames, v) = [value |-> v, ok |-> TRUE]
          /\ \A v \in SwapChoice :
                 RoundTrip(swapChoiceNames, v) = [value |-> v, ok |-> TRUE]
          /\ find(installChoiceNames, "none") = [value |-> NoChoice, ok |-> TRUE]
          /\ find(installChoiceNames, "nochoice") = [value |-> NoChoice, ok |-> TRUE])
    /\ [][ (gsAvailable /\ stack # << >> /\ Len(stack') < Len(stack))
             => LET top == stack[Len(stack)]
                    installChoice == IF top.op = "setInstallChoice"
                                     THEN top.c ELSE m_installChoice
                    swapChoice == IF top.op = "setSwapChoice"
                                  THEN top.c ELSE m_swapChoice
                    published == gs'["partitionChoices"]
                IN  /\ find(installChoiceNames, published.install)
                           = [value |-> installChoice, ok |-> TRUE]
                    /\ find(swapChoiceNames, published.swap)
                           = [value |-> swapChoice, ok |-> TRUE] ]_vars

\* C11's case: Replace and SwapFile, the last values of the two tables, were
\* published under their names, and the names resolve to them.
C11_Witness ==
    /\ stack = << >>
    /\ m_installChoice = Replace
    /\ m_swapChoice = SwapFile
    /\ contains(gs, "partitionChoices")
    /\ gs["partitionChoices"] = [install |-> "replace", swap |-> "file"]
    /\ find(installChoiceNames, gs["partitionChoices"].install).value = Replace
    /\ find(swapChoiceNames, gs["partitionChoices"].swap).value = SwapFile

\* The step wrote the store under key.
Wrote(key) ==
    \E i \in 1 .. Len(NewEvents) :
        NewEvents[i].ev = "gsInsert" /\ NewEvents[i].key = key

\* The keys of the EFI system partition that are published only on request.
OptionalEfiKeys == {"efiSystemPartitionSize", "efiSystemPartitionName"}

\* C12: with the store available, setConfigurationMap always writes
\* firmwareType ("efi" or "bios"), efiSystemPartition (the configured string,
\* "/boot/efi" without the key) and requiredPartitionTableType (the configured
\* list as it is); it writes efiSystemPartitionSize and efiSystemPartitionName
\* exactly when the map has the key, and what the store held under an absent
\* key stays as it was.
C12_PublishedConfiguration ==
    [][ (gsAvailable /\ IsCall("setConfigurationMap", configurationMap))
            => /\ Wrote("firmwareType")
               /\ gs'["firmwareType"] \in {"efi", "bios"}
               /\ Wrote("efiSystemPartition")
               /\ gs'["efiSystemPartition"] =
                      IF contains(configurationMap, "efiSystemPartition")
                      THEN configurationMap["efiSystemPartition"] ELSE "/boot/efi"
               /\ Wrote("requiredPartitionTableType")
               /\ gs'["requiredPartitionTableType"] =
                      IF contains(configurationMap, "requiredPartitionTableType")
                      THEN configurationMap["requiredPartitionTableType"] ELSE << >>
               /\ \A key \in OptionalEfiKeys :
                      /\ Wrote(key) <=> contains(configurationMap, key)
                      /\ IF contains(configurationMap, key)
                         THEN gs'[key] = configurationMap[key]
                         ELSE /\ contains(gs', key) <=> contains(gs, key)
                              /\ contains(gs, key) => gs'[key] = gs[key] ]_vars

\* C12's case: the map gave the partition's name and not its size; the name
\* was written over the store's, the size of the earlier load is still there.
C12_Witness ==
    /\ configured
    /\ gsAvailable
    /\ contains(configurationMap, "efiSystemPartitionName")
    /\ ~contains(configurationMap, "efiSystemPartitionSize")
    /\ ~contains(configurationMap, "efiSystemPartition")
    /\ contains(configurationMap, "requiredPartitionTableType")
    /\ contains(gs, "efiSystemPartitionName")
    /\ gs["efiSystemPartitionName"] = "EFI"
    /\ contains(gs, "efiSystemPartitionSize")
    /\ gs["efiSystemPartitionSize"] = "100M"
    /\ gs["efiSystemPartition"] = "/boot/efi"
    /\ gs["requiredPartitionTableType"] = <<"gpt", "msdos">>
    /\ gs["firmwareType"] = "bios"

\* The positions of the step's log that hold an event ev.
EventsOf(ev) == { i \in 1 .. Len(NewEvents) : NewEvents[i].ev = ev }

\* The step notified the observers of signal once, with value c, and wrote
\* nothing to the store.
NotifiedOnce(signal, c) ==
    /\ Cardinality(EventsOf(signal)) = 1
    /\ \A i \in EventsOf(signal) : NewEvents[i].arg = c
    /\ EventsOf("gsInsert") = {}
    /\ gs' = gs

\* C13: a setInstallChoice or setSwapChoice call (enum or integer) whose value
\* differs from the current one updates the member, then notifies the
\* observers once with the new value, and only when the notification has
\* returned writes partitionChoices to the store, once (the store being
\* available; nothing is written without it).  While the observers run the
\* Config holds the new value and the store what it held before.
C13_UpdateNotifyPublish ==
    [][ /\ \A c \in InstallChoice :
            (/\ \/ IsCall("setInstallChoice", c)
                \/ \E i \in IntInputs :
                       installChoiceOfInt(i) = c /\ IsCall("setInstallChoice(int)", i)
             /\ c # m_installChoice)
                => /\ m_installChoice' = c
                   /\ NotifiedOnce("installChoiceChanged", c)
                   /\ stack' = Append(stack, [op |-> "setInstallChoice", c |-> c])
        /\ \A c \in SwapChoice :
            (/\ \/ IsCall("setSwapChoice", c)
                \/ \E i \in IntInputs :
                       swapChoiceOfInt(i) = c /\ IsCall("setSwapChoice(int)", i)
             /\ c # m_swapChoice)
                => /\ m_swapChoice' = c
                   /\ NotifiedOnce("swapChoiceChanged", c)
                   /\ stack' = Append(stack, [op |-> "setSwapChoice", c |-> c])
        /\ (stack # << >> /\ Len(stack') < Len(stack))
                => /\ stack' = SubSeq(stack, 1, Len(stack) - 1)
                   /\ UNCHANGED configVars
                   /\ EventsOf("installChoiceChanged") = {}
                   /\ EventsOf("swapChoiceChanged") = {}
                   /\ IF gsAvailable
                      THEN /\ Len(NewEvents) = 1
                           /\ NewEvents[1].ev = "gsInsert"
                           /\ NewEvents[1].key = "partitionChoices"
                           /\ contains(gs', "partitionChoices")
                      ELSE NewEvents = << >> /\ gs' = gs
        /\ (Len(stack') > Len(stack)) => ncalls' = ncalls + 1 ]_vars

\* C13's case: the observers of installChoiceChanged( Erase ) are running; the
\* Config holds Erase, the store still the choices published before.
C13_Witness ==
    /\ stack = << [op |-> "setInstallChoice", c |-> Erase] >>
    /\ m_installChoice = Erase
    /\ events[Len(events)] = [ev |-> "installChoiceChanged", arg |-> Erase]
    /\ contains(gs, "partitionChoices")
    /\ gs["partitionChoices"].install = "alongside"

\* C14: once setConfigurationMap has run (with the store available, and having
\* resolved a set that is not empty), whatever setSwapChoice calls follow, the
\* current SwapChoice is a member of the resolved SwapChoiceSet.
C14_CurrentSwapChoicePermitted ==
    (configured /\ gsAvailable /\ m_swapChoices # {}) => m_swapChoice \in m_swapChoices

\* C15: after setConfigurationMap on a Config as constructed, with the store
\* available (and a resolved set that is not empty), the store has a
\* partitionChoices record with the canonical names of the initial InstallChoice
\* and the initial SwapChoice, whatever the map.
C15_InitialChoicesPublished ==
    (configured /\ gsAvailable /\ m_swapChoices # {})
        => /\ contains(gs, "partitionChoices")
           /\ gs["partitionChoices"] =
                  PartitionChoicesOf(m_initialInstallChoice, m_initialSwapChoice)

\* C16: setEraseFsTypeChoice( name ) notifies the observers of the erase-mode
\* file system exactly when the canonical form of name differs from the current
\* choice, the choice is then that canonical form (the empty name included),
\* and the store is never written.  setConfigurationMap with a non-empty
\* availableFileSystemTypes makes the first entry the choice as it is written,
\* and notifies the observers whether or not the choice changed.
C16_EraseFsTypeChoice ==
    [][ /\ \A name \in FsNameInputs :
            IsCall("setEraseFsTypeChoice", name)
                => LET canonicalChoice == canonicalFilesystemName(name)
                       notified == EventsOf("eraseModeFilesystemChanged")
                   IN  /\ m_eraseFsTypeChoice' = canonicalChoice
                       /\ (notified # {}) <=> (canonicalChoice # m_eraseFsTypeChoice)
                       /\ Cardinality(notified) <= 1
                       /\ \A i \in notified : NewEvents[i].arg = canonicalChoice
                       /\ EventsOf("gsInsert") = {}
                       /\ gs' = gs
        /\ (ncalls' = ncalls + 1 /\ NewEvents[1].op = "setConfigurationMap")
                => LET map == NewEvents[1].arg
                       fsTypes == getStringList(map, "availableFileSystemTypes")
                       notified == EventsOf("eraseModeFilesystemChanged")
                   IN  IF fsTypes # << >>
                       THEN /\ m_eraseFsTypes' = fsTypes
                            /\ m_eraseFsTypeChoice' = fsTypes[1]
                            /\ Cardinality(notified) = 1
                            /\ \A i \in notified : NewEvents[i].arg = fsTypes[1]
                       ELSE /\ notified = {}
                            /\ UNCHANGED m_eraseFsTypeChoice ]_vars

\* C16's case: a load had made "EXT4" the choice as the list spelt it, and
\* setEraseFsTypeChoice( "EXT4" ) then changed it to the canonical "ext4" and
\* notified the observers.
C16_Witness ==
    /\ m_eraseFsTypes = <<"EXT4", "btrfs">>
    /\ m_eraseFsTypeChoice = "ext4"
    /\ events = << [ev |-> "call", op |-> "setEraseFsTypeChoice", arg |-> "EXT4"],
                   [ev |-> "eraseModeFilesystemChanged", arg |-> "ext4"] >>

\* What a setter must leave alone whichever field it sets: the resolved set,
\* the initial pair, the required storage and the manual-partitioning flag.
loadedFrame ==
    << m_swapChoices, m_initialInstallChoice, m_initialSwapChoice, m_requiredStorageGiB,
       m_allowManualPartitioning >>

\* The step is a call, enum or integer, of the setter op.
IsSetterCall(op) ==
    /\ ncalls' = ncalls + 1
    /\ NewEvents[1].op \in {op, op \o "(int)"}

\* The store is the same but for what it holds under key.
SameStoreBut(key) ==
    /\ DOMAIN gs' \subseteq DOMAIN gs \cup {key}
    /\ \A k \in DOMAIN gs \ {key} : k \in DOMAIN gs' /\ gs'[k] = gs[k]

\* C17: a setter touches its own field only.  A setInstallChoice call leaves
\* the current SwapChoice, a setSwapChoice call the current InstallChoice;
\* neither of them nor setEraseFsTypeChoice changes the resolved set, the
\* initial pair, the required storage, the manual-partitioning flag or a store
\* key other than partitionChoices.  It is stated of each step of a call (up
\* to the signal, and from the signal's return on), so it holds of a call
\* during which the observers call nothing.
C17_SettersFrame ==
    [][ /\ IsSetterCall("setInstallChoice")
            => UNCHANGED << m_swapChoice, loadedFrame, m_eraseFsTypes, m_eraseFsTypeChoice,
                            m_requiredPartitionTableType, gs >>
        /\ IsSetterCall("setSwapChoice")
            => UNCHANGED << m_installChoice, loadedFrame, m_eraseFsTypes,
                            m_eraseFsTypeChoice, m_requiredPartitionTableType, gs >>
        /\ IsSetterCall("setEraseFsTypeChoice")
            => UNCHANGED << choiceVars, loadedFrame, m_eraseFsTypes,
                            m_requiredPartitionTableType, gs, stack >>
        /\ (stack # << >> /\ Len(stack') < Len(stack))
            => /\ UNCHANGED configVars
               /\ SameStoreBut("partitionChoices") ]_vars

\* C17's case: after a load that resolved the set and the initial pair and
\* filled the store, setSwapChoice( SwapFile ) has returned; all but the swap
\* choice and partitionChoices is as the load left it.
C17_Witness ==
    /\ stack = << >>
    /\ configured
    /\ Len(events) = 3
    /\ events[1] = [ev |-> "call", op |-> "setSwapChoice", arg |-> SwapFile]
    /\ m_swapChoice = SwapFile
    /\ m_installChoice = Erase
    /\ m_initialInstallChoice = Erase
    /\ m_initialSwapChoice = SmallSwap
    /\ m_swapChoices # {}
    /\ contains(gs, "requiredStorageGiB")
    /\ contains(gs, "firmwareType")
    /\ contains(gs, "partitionChoices")
    /\ gs["partitionChoices"] = [install |-> "erase", swap |-> "file"]

====
